---- MODULE Spec2Model ----
(***************************************************************************)
(* Dictation daemon (modules/nixos/scripts/dictation/daemon.py) and its    *)
(* command-line client (client.py).                                        *)
(*                                                                         *)
(* Three execution contexts share one DictationDaemon object:              *)
(*   - the main thread, which runs run(): start-up, the accept loop that   *)
(*     processes one command per connection, and the shutdown block;       *)
(*   - the capture backend's thread, which calls audio_callback once per   *)
(*     0.5 s block;                                                        *)
(*   - the transcription thread, which runs transcription_loop.            *)
(* self.lock is taken only inside update_status. self.active and           *)
(* self.audio_queue are read and written with no lock held, so every       *)
(* access to them is a step of its own here (one bytecode-level access     *)
(* per step, which the interpreter executes atomically).                   *)
(*                                                                         *)
(* The write of STATUS_FILE in update_status is taken to succeed; a failed *)
(* write is caught and logged by update_status and leaves the file as it   *)
(* was.                                                                    *)
(***************************************************************************)
EXTENDS Integers, Sequences, FiniteSets, TLC

(* Bounds of the model: blocks the capture callback accepts, commands the  *)
(* clients send.                                                           *)
MaxBlocks == 8
MaxCmds == 3

(* CHUNK_DURATION = 0.5 s and the 2.0 s threshold of transcription_loop,   *)
(* both in tenths of a second.                                             *)
CHUNK_DURATION == 5
THRESHOLD == 20

----------------------------------------------------------------------------
(* Text. A text is a sequence of one-character strings.                    *)

(* the characters str.strip() removes *)
Whitespace == {" ", "\n", "\t"}

RECURSIVE LStrip(_)
LStrip(s) ==
  IF s # << >> /\ Head(s) \in Whitespace THEN LStrip(Tail(s)) ELSE s

RECURSIVE RStrip(_)
RStrip(s) ==
  IF s # << >> /\ s[Len(s)] \in Whitespace THEN RStrip(SubSeq(s, 1, Len(s) - 1)) ELSE s

(* str.strip() *)
Strip(s) == RStrip(LStrip(s))

LowerLetters ==
  << "a", "b", "c", "d", "e", "f", "g", "h", "i", "j", "k", "l", "m",
     "n", "o", "p", "q", "r", "s", "t", "u", "v", "w", "x", "y", "z" >>

UpperLetters ==
  << "A", "B", "C", "D", "E", "F", "G", "H", "I", "J", "K", "L", "M",
     "N", "O", "P", "Q", "R", "S", "T", "U", "V", "W", "X", "Y", "Z" >>

UpperChar(c) ==
  IF \E i \in DOMAIN LowerLetters : LowerLetters[i] = c
    THEN UpperLetters[CHOOSE i \in DOMAIN LowerLetters : LowerLetters[i] = c]
    ELSE c

(* str.upper() *)
Upper(s) == [i \in 1..Len(s) |-> UpperChar(s[i])]

RECURSIVE Decode(_)
(* the text as one string value, as the daemon compares it *)
Decode(s) == IF s = << >> THEN "" ELSE Head(s) \o Decode(Tail(s))

RECURSIVE ConcatSegments(_)
(* text_segment += segment.text, over the segments in order *)
ConcatSegments(segs) ==
  IF segs = << >> THEN << >>
  ELSE Head(segs) \o ConcatSegments(Tail(segs))

(* len(self.audio_queue) * CHUNK_DURATION >= 2.0 *)
ThresholdMet(q) == Len(q) * CHUNK_DURATION >= THRESHOLD

----------------------------------------------------------------------------
(* Inputs.                                                                 *)

(* sys.argv[1] of client.py *)
ClientArgs ==
  { <<"s", "t", "a", "r", "t">>,
    <<"T", "o", "g", "g", "l", "e">> }

(* send_command(sys.argv[1].upper()) *)
ClientFrames == { Upper(a) : a \in ClientArgs }

(* frames written to the socket by something else than client.py *)
RawFrames ==
  { <<"s", "t", "a", "r", "t">>,
    <<"S", "T", "O", "P", "\n">> }

Frames == ClientFrames \cup RawFrames

(* Mutant of Decoded: the daemon uppercases the token before matching. *)
DecodedUppercased(f) == Decode(Upper(Strip(f)))

(* data = conn.recv(1024).decode().strip() *)
Decoded(f) == Decode(Strip(f))

(* data, for each frame that can arrive *)
DecodedFrame == [f \in Frames |-> Decoded(f)]

(* The tokens the daemon can find in data. *)
Tokens == { Decoded(f) : f \in Frames }

(* What the speech engine can return: a sequence of segment texts.         *)
EngineOutputs ==
  { << >>,
    << <<" ">> >>,
    << <<" ", "h", "i">>, <<"!", " ">> >> }

NoFrame == << >>
NoSnap == [n |-> 0, obs |-> << >>]
NoWindow == [open |-> FALSE, typed |-> 0, calls |-> 0]

VARIABLES
  active,        \* self.active
  audio_queue,   \* self.audio_queue, a sequence of block ids
  status,        \* self.status
  statusFile,    \* contents of STATUS_FILE
  lock,          \* holder of self.lock: "none", "main" or "sched"
  stop_event,    \* self.stop_event
  pcM,           \* position of the main thread in run()
  data,          \* the token of the connection being (or last) processed
  frame,         \* the bytes received on the connection being processed
  ncmds,         \* connections accepted so far
  stream,        \* the capture stream: "closed" or "running"
  socketFile,    \* whether SOCKET_PATH exists and is bound by this process
  pcA,           \* position of the capture thread in audio_callback
  blk,           \* id of the block audio_callback is about to append
  nblocks,       \* blocks accepted so far
  pcS,           \* position of the transcription thread
  batch,         \* audio_data of transcription_loop
  segments,      \* segments of transcription_loop
  text_segment,  \* text_segment of transcription_loop
  engineLog,     \* history: the buffers handed to model.transcribe
  typed,         \* history: the strings handed to wtype
  before,        \* history: self.active when the command in progress was read
  sinceClear,    \* history: blocks appended since the clear of the command in progress
  snap,          \* history: the state a STOP left, while only STOPs have run since
  sinceStop      \* history: injections and engine calls since a STOP completed

vars == << active, audio_queue, status, statusFile, lock, stop_event,
           pcM, data, frame, ncmds, stream, socketFile, pcA, blk, nblocks,
           pcS, batch, segments, text_segment, engineLog, typed,
           before, sinceClear, snap, sinceStop >>

connVars == << data, frame, ncmds, before >>
resVars == << stream, socketFile >>
mainVars == << pcM, connVars, resVars >>
audioVars == << pcA, blk, nblocks >>
schedLocals == << batch, segments, text_segment >>
schedVars == << pcS, schedLocals, engineLog, typed >>
statusVars == << status, statusFile, lock >>

(* What a client of the daemon can observe of a command's effect. *)
Obs == << active, audio_queue, status, statusFile >>

----------------------------------------------------------------------------
(* State after DictationDaemon(): __init__ has published the first status. *)
Init ==
  /\ active = FALSE
  /\ audio_queue = << >>
  /\ status = [active |-> FALSE, text |-> << >>, error |-> "None"]
  /\ statusFile = [active |-> FALSE, text |-> << >>, error |-> "None"]
  /\ lock = "none"
  /\ stop_event = FALSE
  /\ pcM = "load_model"
  /\ data = "none"
  /\ frame = NoFrame
  /\ ncmds = 0
  /\ stream = "closed"
  /\ socketFile = FALSE
  /\ pcA = "idle"
  /\ blk = 0
  /\ nblocks = 0
  /\ pcS = "unstarted"
  /\ batch = << >>
  /\ segments = << >>
  /\ text_segment = << >>
  /\ engineLog = << >>
  /\ typed = << >>
  /\ before = FALSE
  /\ sinceClear = {}
  /\ snap = NoSnap
  /\ sinceStop = NoWindow

----------------------------------------------------------------------------
(* Main thread: the start-up part of run().                                *)

(* self.load_model(): WhisperModel(...) returns *)
LoadModel ==
  /\ pcM = "load_model"
  /\ pcM' = "open_stream"
  /\ UNCHANGED << active, audio_queue, statusVars, stop_event, connVars, resVars,
                  audioVars, schedVars, sinceClear, snap, sinceStop >>

(* WhisperModel(...) raises: update_status(error=str(e)); sys.exit(1) *)
LoadModelFail ==
  /\ pcM = "load_model"
  /\ lock = "none"
  /\ status' = [status EXCEPT !.error = "load failed"]
  /\ statusFile' = status'
  /\ pcM' = "exit1"
  /\ UNCHANGED << active, audio_queue, lock, stop_event, connVars, resVars,
                  audioVars, schedVars, sinceClear, snap, sinceStop >>

(* p = pyaudio.PyAudio(); stream = p.open(...); stream.start_stream() *)
OpenStream ==
  /\ pcM = "open_stream"
  /\ stream' = "running"
  /\ pcM' = "start_thread"
  /\ UNCHANGED << active, audio_queue, statusVars, stop_event, connVars, socketFile,
                  audioVars, schedVars, sinceClear, snap, sinceStop >>

(* p.open raises: the exception leaves run(), no other thread exists *)
OpenStreamFail ==
  /\ pcM = "open_stream"
  /\ pcM' = "raised"
  /\ UNCHANGED << active, audio_queue, statusVars, stop_event, connVars, resVars,
                  audioVars, schedVars, sinceClear, snap, sinceStop >>

(* t_thread = threading.Thread(target=self.transcription_loop); start() *)
StartThread ==
  /\ pcM = "start_thread"
  /\ pcS = "unstarted"
  /\ pcS' = "while"
  /\ pcM' = "bind"
  /\ UNCHANGED << active, audio_queue, statusVars, stop_event, connVars, resVars,
                  audioVars, schedLocals, engineLog, typed, sinceClear, snap, sinceStop >>

(* os.remove(SOCKET_PATH) if it exists; server.bind; server.listen *)
Bind ==
  /\ pcM = "bind"
  /\ socketFile' = TRUE
  /\ pcM' = "accept"
  /\ UNCHANGED << active, audio_queue, statusVars, stop_event, connVars, stream,
                  audioVars, schedVars, sinceClear, snap, sinceStop >>

(* os.remove or server.bind raises: the exception leaves run() before the  *)
(* try block, so nothing sets stop_event, joins the transcription thread   *)
(* or stops the stream.                                                    *)
BindFail ==
  /\ pcM = "bind"
  /\ pcM' = "raised"
  /\ UNCHANGED << active, audio_queue, statusVars, stop_event, connVars, resVars,
                  audioVars, schedVars, sinceClear, snap, sinceStop >>

----------------------------------------------------------------------------
(* Main thread: the accept loop of run().                                  *)

(* Mutant of Recv: every token enters the command branch. *)
RecvDispatchesAll ==
  /\ pcM = "accept"
  /\ ~stop_event
  /\ ncmds < MaxCmds
  /\ \E f \in Frames :
       /\ frame' = f
       /\ data' = DecodedFrame[f]
       /\ pcM' = "set_active"
       /\ snap' = IF data' = "STOP" THEN snap ELSE NoSnap
       /\ sinceStop' = IF data' \in {"START", "TOGGLE"} THEN NoWindow ELSE sinceStop
  /\ ncmds' = ncmds + 1
  /\ before' = active
  /\ UNCHANGED << active, audio_queue, statusVars, stop_event, resVars,
                  audioVars, schedVars, sinceClear >>

(* conn, _ = server.accept(); data = conn.recv(1024).decode().strip() *)
Recv ==
  /\ pcM = "accept"
  /\ ~stop_event
  /\ ncmds < MaxCmds
  /\ \E f \in Frames :
       /\ frame' = f
       /\ data' = DecodedFrame[f]
       /\ pcM' = IF data' \in {"START", "STOP", "TOGGLE"} THEN "set_active" ELSE "close"
       /\ snap' = IF data' = "STOP" THEN snap ELSE NoSnap
       /\ sinceStop' = IF data' \in {"START", "TOGGLE"} THEN NoWindow ELSE sinceStop
  /\ ncmds' = ncmds + 1
  /\ before' = active
  /\ UNCHANGED << active, audio_queue, statusVars, stop_event, resVars,
                  audioVars, schedVars, sinceClear >>

(* Mutant of NewActive: TOGGLE sets the flag instead of inverting it. *)
NewActiveToggleSets(tok, cur) ==
  CASE tok = "START" -> TRUE
    [] tok = "STOP" -> FALSE
    [] tok = "TOGGLE" -> TRUE
    [] OTHER -> cur

(* Mutant of NewActive: STOP inverts the flag instead of clearing it. *)
NewActiveStopInverts(tok, cur) ==
  CASE tok = "START" -> TRUE
    [] tok = "STOP" -> ~cur
    [] tok = "TOGGLE" -> ~cur
    [] OTHER -> cur

(* self.active = True / False / not self.active. The read and the write   *)
(* of TOGGLE are one step: no other thread writes self.active.             *)
NewActive(tok, cur) ==
  CASE tok = "START" -> TRUE
    [] tok = "STOP" -> FALSE
    [] tok = "TOGGLE" -> ~cur
    [] OTHER -> cur

CmdSetActive ==
  /\ pcM = "set_active"
  /\ active' = NewActive(data, active)
  /\ pcM' = IF data = "STOP" THEN "update_status" ELSE "clear"
  /\ UNCHANGED << audio_queue, statusVars, stop_event, connVars, resVars,
                  audioVars, schedVars, sinceClear, snap, sinceStop >>

(* Mutant of CmdClear: the command leaves the queue as it is. *)
CmdClearSkipped ==
  /\ pcM = "clear"
  /\ sinceClear' = {}
  /\ pcM' = "update_status"
  /\ UNCHANGED << active, audio_queue, statusVars, stop_event, connVars, resVars,
                  audioVars, schedVars, snap, sinceStop >>

(* self.audio_queue.clear() of START and TOGGLE *)
CmdClear ==
  /\ pcM = "clear"
  /\ audio_queue' = << >>
  /\ sinceClear' = {}
  /\ pcM' = "update_status"
  /\ UNCHANGED << active, statusVars, stop_event, connVars, resVars,
                  audioVars, schedVars, snap, sinceStop >>

(* self.update_status(active=...): with self.lock, set the field, dump *)
CmdStatusAcquire ==
  /\ pcM = "update_status"
  /\ lock = "none"
  /\ lock' = "main"
  /\ status' = [status EXCEPT !.active = active]
  /\ statusFile' = status'
  /\ pcM' = "release"
  /\ UNCHANGED << active, audio_queue, stop_event, connVars, resVars,
                  audioVars, schedVars, sinceClear, snap, sinceStop >>

CmdStatusRelease ==
  /\ pcM = "release"
  /\ lock' = "none"
  /\ pcM' = "close"
  /\ UNCHANGED << active, audio_queue, status, statusFile, stop_event, connVars, resVars,
                  audioVars, schedVars, sinceClear, snap, sinceStop >>

(* finally: conn.close() *)
CmdClose ==
  /\ pcM = "close"
  /\ pcM' = "closed"
  /\ snap' = IF data = "STOP"
               THEN [n |-> IF snap.n = 0 THEN 1 ELSE 2,
                     obs |-> IF snap.n = 0 THEN Obs ELSE snap.obs]
               ELSE NoSnap
  /\ sinceStop' = IF data = "STOP" /\ ~sinceStop.open
                    THEN [open |-> TRUE, typed |-> 0, calls |-> 0]
                    ELSE sinceStop
  /\ UNCHANGED << active, audio_queue, statusVars, stop_event, connVars, resVars,
                  audioVars, schedVars, sinceClear >>

(* back to while not self.stop_event.is_set(): only the main thread sets   *)
(* stop_event, in its outer finally, so the test passes here.              *)
AcceptLoopTest ==
  /\ pcM = "closed"
  /\ pcM' = "accept"
  /\ before' = FALSE
  /\ frame' = NoFrame
  /\ sinceClear' = {}
  /\ UNCHANGED << active, audio_queue, statusVars, stop_event, data, ncmds, resVars,
                  audioVars, schedVars, snap, sinceStop >>

----------------------------------------------------------------------------
(* Main thread: shutdown.                                                  *)

(* KeyboardInterrupt in the main thread, or an exception of               *)
(* server.accept(): the with block releases the lock, the inner finally    *)
(* closes the connection, the outer finally sets stop_event.               *)
Interrupt ==
  /\ pcM \in {"accept", "set_active", "clear", "update_status", "release", "close", "closed"}
  /\ lock' = IF lock = "main" THEN "none" ELSE lock
  /\ stop_event' = TRUE
  /\ pcM' = "join"
  /\ before' = FALSE
  /\ frame' = NoFrame
  /\ sinceClear' = {}
  /\ snap' = NoSnap
  /\ data' = "none"
  /\ UNCHANGED << active, audio_queue, status, statusFile, ncmds, resVars,
                  audioVars, schedVars, sinceStop >>

SchedulerEnded == pcS \in {"exited", "died_concatenate", "died_transcribe"}

(* Mutant of Join: the main thread goes on without waiting for the        *)
(* transcription thread.                                                   *)
JoinWithoutWaiting ==
  /\ pcM = "join"
  /\ pcM' = "stop_stream"
  /\ UNCHANGED << active, audio_queue, statusVars, stop_event, connVars, resVars,
                  audioVars, schedVars, sinceClear, snap, sinceStop >>

(* t_thread.join() *)
Join ==
  /\ pcM = "join"
  /\ SchedulerEnded
  /\ pcM' = "stop_stream"
  /\ UNCHANGED << active, audio_queue, statusVars, stop_event, connVars, resVars,
                  audioVars, schedVars, sinceClear, snap, sinceStop >>

(* stream.stop_stream(); stream.close(); p.terminate() *)
StopStream ==
  /\ pcM = "stop_stream"
  /\ pcA = "idle"
  /\ stream' = "closed"
  /\ pcM' = "remove_socket"
  /\ UNCHANGED << active, audio_queue, statusVars, stop_event, connVars, socketFile,
                  audioVars, schedVars, sinceClear, snap, sinceStop >>

(* os.remove(SOCKET_PATH) *)
RemoveSocket ==
  /\ pcM = "remove_socket"
  /\ socketFile' = FALSE
  /\ pcM' = "stopped"
  /\ UNCHANGED << active, audio_queue, statusVars, stop_event, connVars, stream,
                  audioVars, schedVars, sinceClear, snap, sinceStop >>

----------------------------------------------------------------------------
(* Capture thread: audio_callback, once per block.                         *)

(* The command in progress is a START or TOGGLE and has done its clear.    *)
Cleared ==
  /\ pcM \in {"update_status", "release", "close", "closed"}
  /\ data \in {"START", "TOGGLE"}

(* if self.active: a block that passes the test gets the next id; a block  *)
(* that fails it is dropped and leaves no trace.                           *)
AudioCallbackCheck ==
  /\ pcA = "idle"
  /\ stream = "running"
  /\ nblocks < MaxBlocks
  /\ IF active
       THEN /\ pcA' = "append"
            /\ blk' = nblocks + 1
            /\ nblocks' = nblocks + 1
       ELSE /\ pcA' = "idle"
            /\ blk' = blk
            /\ nblocks' = nblocks
  /\ snap' = NoSnap
  /\ UNCHANGED << active, audio_queue, statusVars, stop_event, mainVars, schedVars,
                  sinceClear, sinceStop >>

(* self.audio_queue.append(audio_data) *)
AudioCallbackAppend ==
  /\ pcA = "append"
  /\ audio_queue' = Append(audio_queue, blk)
  /\ sinceClear' = IF Cleared THEN sinceClear \cup {blk} ELSE sinceClear
  /\ pcA' = "idle"
  /\ blk' = 0
  /\ snap' = NoSnap
  /\ UNCHANGED << active, statusVars, stop_event, mainVars, nblocks, schedVars, sinceStop >>

----------------------------------------------------------------------------
(* Transcription thread: transcription_loop.                               *)

(* while not self.stop_event.is_set(): *)
LoopTest ==
  /\ pcS = "while"
  /\ pcS' = IF stop_event THEN "exited" ELSE "if_active"
  /\ segments' = << >>
  /\ snap' = NoSnap
  /\ UNCHANGED << active, audio_queue, statusVars, stop_event, mainVars, audioVars,
                  batch, text_segment, engineLog, typed, sinceClear, sinceStop >>

(* Mutant of ReadActive: the loop tests only the queue. *)
ReadActiveIgnored ==
  /\ pcS = "if_active"
  /\ pcS' = "if_queue"
  /\ snap' = NoSnap
  /\ UNCHANGED << active, audio_queue, statusVars, stop_event, mainVars, audioVars,
                  schedLocals, engineLog, typed, sinceClear, sinceStop >>

(* if self.active ... *)
ReadActive ==
  /\ pcS = "if_active"
  /\ pcS' = IF active THEN "if_queue" ELSE "sleep"
  /\ snap' = NoSnap
  /\ UNCHANGED << active, audio_queue, statusVars, stop_event, mainVars, audioVars,
                  schedLocals, engineLog, typed, sinceClear, sinceStop >>

(* ... and self.audio_queue: *)
ReadQueue ==
  /\ pcS = "if_queue"
  /\ pcS' = IF audio_queue # << >> THEN "if_len" ELSE "sleep"
  /\ snap' = NoSnap
  /\ UNCHANGED << active, audio_queue, statusVars, stop_event, mainVars, audioVars,
                  schedLocals, engineLog, typed, sinceClear, sinceStop >>

(* if len(self.audio_queue) * CHUNK_DURATION >= 2.0: *)
LenTest ==
  /\ pcS = "if_len"
  /\ pcS' = IF ThresholdMet(audio_queue) THEN "concatenate" ELSE "while"
  /\ snap' = NoSnap
  /\ UNCHANGED << active, audio_queue, statusVars, stop_event, mainVars, audioVars,
                  schedLocals, engineLog, typed, sinceClear, sinceStop >>

(* audio_data = np.concatenate(list(self.audio_queue)); np.concatenate     *)
(* raises ValueError on an empty list, and nothing catches it.             *)
Concatenate ==
  /\ pcS = "concatenate"
  /\ IF audio_queue = << >>
       THEN /\ pcS' = "died_concatenate"
            /\ batch' = batch
       ELSE /\ pcS' = "clear"
            /\ batch' = audio_queue
  /\ snap' = NoSnap
  /\ UNCHANGED << active, audio_queue, statusVars, stop_event, mainVars, audioVars,
                  segments, text_segment, engineLog, typed, sinceClear, sinceStop >>

(* Mutant of ClearAndCall: the scheduler calls the engine without         *)
(* clearing the queue.                                                     *)
CallWithoutClear ==
  /\ pcS = "clear"
  /\ engineLog' = Append(engineLog, batch)
  /\ pcS' = "transcribe"
  /\ snap' = NoSnap
  /\ sinceStop' = IF sinceStop.open
                    THEN [sinceStop EXCEPT !.calls = @ + 1] ELSE sinceStop
  /\ UNCHANGED << active, audio_queue, statusVars, stop_event, mainVars, audioVars,
                  schedLocals, typed, sinceClear >>

(* Mutant of ClearAndCall: the drain and the engine call are made inside   *)
(* with self.lock.                                                         *)
CallHoldingLock ==
  /\ pcS = "clear"
  /\ lock = "none"
  /\ lock' = "sched"
  /\ audio_queue' = << >>
  /\ engineLog' = Append(engineLog, batch)
  /\ pcS' = "transcribe"
  /\ snap' = NoSnap
  /\ sinceStop' = IF sinceStop.open
                    THEN [sinceStop EXCEPT !.calls = @ + 1] ELSE sinceStop
  /\ UNCHANGED << active, status, statusFile, stop_event, mainVars, audioVars,
                  schedLocals, typed, sinceClear >>

(* self.audio_queue.clear(), then the call of self.model.transcribe *)
ClearAndCall ==
  /\ pcS = "clear"
  /\ audio_queue' = << >>
  /\ engineLog' = Append(engineLog, batch)
  /\ pcS' = "transcribe"
  /\ snap' = NoSnap
  /\ sinceStop' = IF sinceStop.open
                    THEN [sinceStop EXCEPT !.calls = @ + 1] ELSE sinceStop
  /\ UNCHANGED << active, statusVars, stop_event, mainVars, audioVars,
                  schedLocals, typed, sinceClear >>

(* the engine returns its segments; the loop joins their texts and strips  *)
(* the result                                                              *)
EngineReturn ==
  /\ pcS = "transcribe"
  /\ \E segs \in EngineOutputs :
       /\ segments' = segs
       /\ text_segment' = Strip(ConcatSegments(segs))
       /\ pcS' = IF text_segment' # << >> THEN "type_text" ELSE "while"
  /\ batch' = << >>
  /\ snap' = NoSnap
  /\ UNCHANGED << active, audio_queue, statusVars, stop_event, mainVars, audioVars,
                  engineLog, typed, sinceClear, sinceStop >>

(* the engine raises: no handler in transcription_loop, the thread ends *)
EngineRaise ==
  /\ pcS = "transcribe"
  /\ pcS' = "died_transcribe"
  /\ batch' = << >>
  /\ snap' = NoSnap
  /\ UNCHANGED << active, audio_queue, statusVars, stop_event, mainVars, audioVars,
                  segments, text_segment, engineLog, typed, sinceClear, sinceStop >>

(* Mutant of TypeText: the text is typed without the trailing space. *)
TypeTextNoSeparator ==
  /\ pcS = "type_text"
  /\ typed' = Append(typed, text_segment)
  /\ pcS' = "update_status"
  /\ snap' = NoSnap
  /\ sinceStop' = IF sinceStop.open
                    THEN [sinceStop EXCEPT !.typed = @ + 1] ELSE sinceStop
  /\ UNCHANGED << active, audio_queue, statusVars, stop_event, mainVars, audioVars,
                  schedLocals, engineLog, sinceClear >>

(* self.type_text(text_segment + " ") *)
TypeText ==
  /\ pcS = "type_text"
  /\ typed' = IF text_segment \o <<" ">> # << >>
                THEN Append(typed, text_segment \o <<" ">>)
                ELSE typed
  /\ pcS' = "update_status"
  /\ snap' = NoSnap
  /\ sinceStop' = IF sinceStop.open
                    THEN [sinceStop EXCEPT !.typed = @ + 1] ELSE sinceStop
  /\ UNCHANGED << active, audio_queue, statusVars, stop_event, mainVars, audioVars,
                  schedLocals, engineLog, sinceClear >>

(* Mutant of SchedStatusAcquire: the scheduler publishes active=True with  *)
(* the text.                                                               *)
SchedStatusSetsActive ==
  /\ pcS = "update_status"
  /\ lock = "none"
  /\ lock' = "sched"
  /\ status' = [status EXCEPT !.text = text_segment, !.active = TRUE]
  /\ statusFile' = status'
  /\ pcS' = "release"
  /\ snap' = NoSnap
  /\ UNCHANGED << active, audio_queue, stop_event, mainVars, audioVars,
                  schedLocals, engineLog, typed, sinceClear, sinceStop >>

(* self.update_status(text=text_segment) *)
SchedStatusAcquire ==
  /\ pcS = "update_status"
  /\ lock = "none"
  /\ lock' = "sched"
  /\ status' = [status EXCEPT !.text = text_segment]
  /\ statusFile' = status'
  /\ pcS' = "release"
  /\ snap' = NoSnap
  /\ UNCHANGED << active, audio_queue, stop_event, mainVars, audioVars,
                  schedLocals, engineLog, typed, sinceClear, sinceStop >>

SchedStatusRelease ==
  /\ pcS = "release"
  /\ lock' = "none"
  /\ pcS' = "while"
  /\ text_segment' = << >>
  /\ snap' = NoSnap
  /\ UNCHANGED << active, audio_queue, status, statusFile, stop_event, mainVars, audioVars,
                  batch, segments, engineLog, typed, sinceClear, sinceStop >>

(* else: time.sleep(0.1) *)
Sleep ==
  /\ pcS = "sleep"
  /\ pcS' = "while"
  /\ snap' = NoSnap
  /\ UNCHANGED << active, audio_queue, statusVars, stop_event, mainVars, audioVars,
                  schedLocals, engineLog, typed, sinceClear, sinceStop >>

----------------------------------------------------------------------------
Next ==
  \/ LoadModel
  \/ LoadModelFail
  \/ OpenStream
  \/ OpenStreamFail
  \/ StartThread
  \/ Bind
  \/ BindFail
  \/ Recv
  \/ CmdSetActive
  \/ CmdClear
  \/ CmdStatusAcquire
  \/ CmdStatusRelease
  \/ CmdClose
  \/ AcceptLoopTest
  \/ Interrupt
  \/ Join
  \/ StopStream
  \/ RemoveSocket
  \/ AudioCallbackCheck
  \/ AudioCallbackAppend
  \/ LoopTest
  \/ ReadActive
  \/ ReadQueue
  \/ LenTest
  \/ Concatenate
  \/ ClearAndCall
  \/ EngineReturn
  \/ EngineRaise
  \/ TypeText
  \/ SchedStatusAcquire
  \/ SchedStatusRelease
  \/ Sleep

Spec == Init /\ [][Next]_vars


(* The steps of the transcription thread. *)
SchedulerStep ==
  \/ LoopTest
  \/ ReadActive
  \/ ReadQueue
  \/ LenTest
  \/ Concatenate
  \/ ClearAndCall
  \/ EngineReturn
  \/ EngineRaise
  \/ TypeText
  \/ SchedStatusAcquire
  \/ SchedStatusRelease
  \/ Sleep

(* The steps of run()'s finally clause. *)
ShutdownStep ==
  \/ Join
  \/ StopStream
  \/ RemoveSocket

(* Every thread that can take a step eventually takes one: the main thread *)
(* in its finally clause, the transcription thread (whose engine call      *)
(* returns or raises), and a capture callback that has begun.              *)
FairSpec ==
  /\ Spec
  /\ WF_vars(ShutdownStep)
  /\ WF_vars(SchedulerStep)
  /\ WF_vars(AudioCallbackAppend)

----------------------------------------------------------------------------
(* Properties.                                                             *)

Commands == {"START", "STOP", "TOGGLE"}

(* The table of the command processor: recording after the command. *)
ExpectedRecording(tok, prev) ==
  CASE tok = "START" -> TRUE
    [] tok = "STOP" -> FALSE
    [] tok = "TOGGLE" -> ~prev

(* The connection of a recognized command has just been closed. *)
Completed(toks) == pcM = "closed" /\ data \in toks

Range(s) == { s[i] : i \in 1..Len(s) }

IsPrefix(s, t) == Len(s) <= Len(t) /\ SubSeq(t, 1, Len(s)) = s

(* C1: when a START, STOP or TOGGLE completes, recording is true after     *)
(* START, false after STOP and the negation of its value before the        *)
(* command after TOGGLE, whatever the sink and the scheduler did meanwhile. *)
C1_RecordingPerTable ==
  Completed(Commands) => active = ExpectedRecording(data, before)

(* A TOGGLE that turned recording off completes while the sink is between  *)
(* its test and its append and the engine is running.                      *)
C1_Witness ==
  /\ Completed({"TOGGLE"})
  /\ before /\ ~active
  /\ pcA = "append"
  /\ pcS = "transcribe"

(* C2 as claimed: pendingAudio is empty when a START or TOGGLE completes. *)
C2_EmptyAtCompletion ==
  Completed({"START", "TOGGLE"}) => audio_queue = << >>

(* C2 as amended: when a START or TOGGLE completes, pendingAudio holds     *)
(* only blocks whose append took effect after the command's clear.         *)
C2_OnlyAppendedAfterClear ==
  Completed({"START", "TOGGLE"}) => Range(audio_queue) \subseteq sinceClear

(* A START issued while recording completes with a block pending that was  *)
(* appended after its clear; earlier blocks were delivered before it.      *)
C2_Witness ==
  /\ Completed({"START"})
  /\ before
  /\ audio_queue # << >>
  /\ Head(audio_queue) > 1

(* C3: pendingAudio grows only while recording is true: no step makes the  *)
(* queue longer from a state where recording is false.                     *)
C3_GrowsOnlyWhileRecording ==
  [][Len(audio_queue') > Len(audio_queue) => active]_vars

(* C4: no block is appended between the scheduler's copy and its clear:    *)
(* when the scheduler is about to clear, every pending block is in the     *)
(* batch it copied.                                                        *)
C4_ClearRemovesOnlyCopied ==
  pcS = "clear" => Range(audio_queue) \subseteq Range(batch)

(* C5: no block is handed to the engine twice, in one batch or in two, and *)
(* no block of the batch being transcribed is still pending.               *)
C5_NoDoubleTranscription ==
  /\ \A i \in DOMAIN engineLog :
       /\ Cardinality(Range(engineLog[i])) = Len(engineLog[i])
       /\ \A j \in DOMAIN engineLog :
            i # j => Range(engineLog[i]) \cap Range(engineLog[j]) = {}
  /\ pcS = "transcribe" => Range(batch) \cap Range(audio_queue) = {}

(* The second batch is at the engine. *)
C5_Witness ==
  /\ Len(engineLog) = 2
  /\ pcS = "transcribe"
  /\ batch = engineLog[2]

(* C6: when a TOGGLE has completed, every delivery has finished and the    *)
(* scheduler has drained nothing, a delivered block is pending if and only *)
(* if its append came after the toggle's clear and recording is now true.  *)
C6_ToggleBlocks ==
  (Completed({"TOGGLE"}) /\ pcA = "idle" /\ engineLog = << >>)
    => \A b \in 1..nblocks :
         b \in Range(audio_queue) <=> (b \in sinceClear /\ active)

(* C7: every buffer the scheduler hands to the engine holds at least 2.0 s *)
(* of audio, and a length test that finds less leaves the queue alone and  *)
(* invokes nothing.                                                        *)
C7_NoShortBatch ==
  [][ /\ engineLog' # engineLog => ThresholdMet(engineLog'[Len(engineLog')])
      /\ (pcS = "if_len" /\ pcS' # pcS /\ ~ThresholdMet(audio_queue))
           => (pcS' = "while" /\ audio_queue' = audio_queue /\ engineLog' = engineLog)
    ]_vars

(* C8: with recording true, k >= 4 blocks pending, no command in progress  *)
(* and no delivery in progress, the scheduler's next engine invocation     *)
(* gets exactly those k blocks in order and leaves pendingAudio empty.     *)
C8_DispatchesExactlyPending ==
  [][ ( /\ active /\ ThresholdMet(audio_queue)
        /\ pcM = "accept" /\ pcA = "idle"
        /\ engineLog' # engineLog )
      => ( /\ engineLog' = Append(engineLog, audio_queue)
           /\ audio_queue' = << >> )
    ]_vars

(* C9: after a STOP has completed and until the next command is read, the  *)
(* blocks pending stay where they are and nothing is handed to the engine. *)
C9_UntouchedAfterStop ==
  [][ (pcM = "accept" /\ pcM' = "accept" /\ data = "STOP")
      => (IsPrefix(audio_queue, audio_queue') /\ engineLog' = engineLog)
    ]_vars

(* C10: an engine error does not end the scheduler loop: the loop has      *)
(* ended, by its test or by an engine error, only after shutdown was       *)
(* signalled.                                                              *)
C10_LoopEndsOnlyOnShutdown ==
  pcS \in {"exited", "died_transcribe"} => stop_event


----------------------------------------------------------------------------
(* Command tokens (C11 .. C13).                                            *)

(* The token a case-insensitive daemon would match for each frame. *)
NormalizedToken == [f \in Frames |-> Decode(Upper(Strip(f)))]

(* The token the daemon matches for each frame, written out from           *)
(* conn.recv(1024).decode().strip().                                       *)
ExactToken == [f \in Frames |-> Decode(Strip(f))]

(* Every frame the client sends is a command. *)
ClientSendsCommands == \A a \in ClientArgs : Decode(Strip(Upper(a))) \in Commands

(* C11, as stated: a frame whose uppercased token is a command has that    *)
(* command's effect on recording, whatever its case.                       *)
C11_CaseInsensitive ==
  (pcM = "closed" /\ frame # NoFrame /\ NormalizedToken[frame] \in Commands)
    => active = ExpectedRecording(NormalizedToken[frame], before)

(* C11, amended: the client uppercases its argument, so every frame it     *)
(* sends is a command; the daemon strips the frame and matches it as it    *)
(* is, so a frame has a command's effect on recording exactly when its     *)
(* stripped text is START, STOP or TOGGLE, and is ignored otherwise.       *)
C11_ExactMatch ==
  /\ ClientSendsCommands
  /\ (pcM = "closed" /\ frame # NoFrame)
       => IF ExactToken[frame] \in Commands
            THEN active = ExpectedRecording(ExactToken[frame], before)
            ELSE active = before

(* A lower-case "start" written to the socket while idle has been          *)
(* processed and recording is still off.                                   *)
C11_Witness ==
  /\ pcM = "closed"
  /\ frame = <<"s", "t", "a", "r", "t">>
  /\ ~before
  /\ ~active

(* A step of the main thread. *)
MainStep == pcM' # pcM

(* The main thread is receiving or has received a token that is none of    *)
(* START, STOP, TOGGLE, and takes a step that is not the shutdown.         *)
UnrecognizedStep ==
  /\ MainStep
  /\ pcM \in {"accept", "close", "closed"}
  /\ data' \notin Commands \cup {"none"}
  /\ ~stop_event'

(* C12: processing a token that is none of START, STOP, TOGGLE leaves      *)
(* recording, pendingAudio and the status (in memory and published)        *)
(* unchanged, never takes the status lock, closes the connection and       *)
(* returns to accept.                                                      *)
C12_UnrecognizedIgnored ==
  [][UnrecognizedStep =>
       /\ Obs' = Obs
       /\ lock' = lock
       /\ pcM = "accept" => pcM' = "close"
       /\ pcM = "close" => pcM' = "closed"
       /\ pcM = "closed" => pcM' = "accept"]_vars

(* An unrecognized token has been processed while recording with blocks    *)
(* pending, and the next connection can be accepted.                       *)
C12_Witness ==
  /\ pcM = "closed"
  /\ data \notin Commands \cup {"none"}
  /\ active
  /\ audio_queue # << >>
  /\ ENABLED AcceptLoopTest

----------------------------------------------------------------------------
(* Transcription results (C14).                                            *)

RECURSIVE TotalLen(_, _)
(* The number of characters in the first k segments. *)
TotalLen(segs, k) == IF k = 0 THEN 0 ELSE TotalLen(segs, k - 1) + Len(segs[k])

(* c is the segments' texts one after the other, in order. *)
IsConcatOf(c, segs) ==
  /\ Len(c) = TotalLen(segs, Len(segs))
  /\ \A k \in 1..Len(segs) :
       SubSeq(c, TotalLen(segs, k - 1) + 1, TotalLen(segs, k)) = segs[k]

(* t is s without its leading and trailing whitespace. *)
IsStripOf(t, s) ==
  /\ t # << >> => t[1] \notin Whitespace /\ t[Len(t)] \notin Whitespace
  /\ \E i \in 0..Len(s) :
       /\ i + Len(t) <= Len(s)
       /\ SubSeq(s, i + 1, i + Len(t)) = t
       /\ \A j \in (1..i) \cup ((i + Len(t) + 1)..Len(s)) : s[j] \in Whitespace

(* The text T of the engine's segments. *)
IsTextOf(t, segs) == \E c \in {ConcatSegments(segs)} : IsConcatOf(c, segs) /\ IsStripOf(t, c)

(* A step of the transcription thread. *)
SchedStep == pcS' # pcS

(* C14: when the engine returns, T is the segments' texts concatenated in  *)
(* order and stripped; a non-empty T is typed once, followed by one space, *)
(* and then becomes the status text, in memory and published; an empty T   *)
(* takes the loop back to its test with nothing typed and the status       *)
(* neither changed nor published. Nothing is typed at any other step, and  *)
(* there is at most one injection per engine invocation.                   *)
C14_TextDispatched ==
  [][/\ (SchedStep /\ pcS = "transcribe" /\ pcS' # "died_transcribe")
          => /\ IsTextOf(text_segment', segments')
             /\ typed' = typed /\ status' = status /\ statusFile' = statusFile
             /\ pcS' = IF text_segment' = << >> THEN "while" ELSE "type_text"
     /\ (SchedStep /\ pcS = "type_text")
          => /\ typed' = Append(typed, text_segment \o <<" ">>)
             /\ text_segment' = text_segment
             /\ pcS' = "update_status"
     /\ (SchedStep /\ pcS = "update_status")
          => /\ status' = [status EXCEPT !.text = text_segment]
             /\ statusFile' = status'
             /\ typed' = typed
     /\ typed' # typed => (SchedStep /\ pcS = "type_text")
     /\ (SchedStep /\ status' # status) => (pcS = "update_status" /\ text_segment # << >>)
     /\ Len(typed') <= Len(engineLog')]_vars

(* The engine returned " hi" and "! "; "hi! " was typed and "hi!" is the   *)
(* published status text.                                                  *)
C14_Witness ==
  /\ pcS = "release"
  /\ segments = << <<" ", "h", "i">>, <<"!", " ">> >>
  /\ typed # << >>
  /\ typed[Len(typed)] = <<"h", "i", "!", " ">>
  /\ status.text = <<"h", "i", "!">>
  /\ statusFile.text = <<"h", "i", "!">>

(* The engine returned only whitespace; nothing was typed or published.    *)
C14_WitnessEmpty ==
  /\ pcS = "while"
  /\ segments = << <<" ">> >>
  /\ typed = << >>
  /\ status.text = << >>
  /\ Len(engineLog) = 1

----------------------------------------------------------------------------
(* Status (C15).                                                           *)

(* The main thread is between the end of a command's publish and the       *)
(* receipt of the next command.                                            *)
BetweenCommands == pcM \in {"close", "closed", "accept"}

----------------------------------------------------------------------------
(* Start-up and shutdown (C16, C17).                                       *)

(* run() has been left by a start-up failure. *)
InitFailed == pcM \in {"exit1", "raised"}

(* C16: after a failure of start-up no transcription thread and no capture *)
(* stream is left running, so that the process ends.                       *)
C16_InitFailureFatal ==
  InitFailed => (pcS = "unstarted" /\ stream # "running")

(* Draining has been triggered: the outer finally of run() has begun. *)
Draining == stop_event

Stopped == pcM = "stopped"

(* The order of the shutdown: the flag is set exactly in the shutdown      *)
(* steps, where no connection is accepted; the stream is stopped only      *)
(* after the transcription thread has ended, and the socket is removed     *)
(* only after the stream has been closed.                                  *)
DrainOrder ==
  /\ Draining <=> pcM \in {"join", "stop_stream", "remove_socket", "stopped"}
  /\ Draining => ~ENABLED Recv
  /\ pcM = "join" => (stream = "running" /\ socketFile)
  /\ pcM = "stop_stream" => (SchedulerEnded /\ stream = "running" /\ socketFile)
  /\ pcM = "remove_socket" => (SchedulerEnded /\ stream = "closed" /\ socketFile)
  /\ pcM = "stopped" => (SchedulerEnded /\ stream = "closed" /\ ~socketFile)

(* The loop test, once the flag is set, ends the loop. *)
LoopObservesFlag ==
  (Draining /\ pcS = "while" /\ SchedStep) => pcS' = "exited"

(* C17: once the shutdown flag is set no connection is accepted, the loop  *)
(* of the transcription thread ends at its next test of the flag, the main *)
(* thread joins that thread, then stops and closes the stream, then        *)
(* removes the socket, and the daemon eventually is stopped, given that    *)
(* every thread keeps being scheduled and the engine call in progress      *)
(* ends.                                                                   *)
C17_DrainsInOrder ==
  /\ []DrainOrder
  /\ [][LoopObservesFlag]_vars
  /\ Draining ~> Stopped

(* The daemon is stopped after the transcription thread, which had called  *)
(* the engine, left its loop.                                              *)
C17_Witness ==
  /\ Stopped
  /\ pcS = "exited"
  /\ engineLog # << >>
  /\ stream = "closed"
  /\ ~socketFile

----------------------------------------------------------------------------
(* Concurrency (C18 .. C20).                                               *)

(* The step the main thread has to take next in a command. *)
CommandStep ==
  \/ CmdSetActive
  \/ CmdClear
  \/ CmdStatusAcquire
  \/ CmdStatusRelease
  \/ CmdClose
  \/ AcceptLoopTest

(* The engine call of the transcription thread is in progress. *)
EngineBusy == pcS = "transcribe"

(* C18: while an engine call is in progress the transcription thread does  *)
(* not hold the status lock, the command the main thread is processing can *)
(* take its next step, whichever it is (the status publish included), a    *)
(* new command can be received, and the capture callback can test the flag *)
(* and append.                                                             *)
C18_EngineStallsOnlyScheduler ==
  EngineBusy =>
    /\ lock # "sched"
    /\ pcM \in {"set_active", "clear", "update_status", "release", "close", "closed"}
         => ENABLED CommandStep
    /\ (pcM = "accept" /\ ncmds < MaxCmds) => ENABLED Recv
    /\ pcA = "append" => ENABLED AudioCallbackAppend
    /\ (pcA = "idle" /\ stream = "running" /\ nblocks < MaxBlocks)
         => ENABLED AudioCallbackCheck

(* During an engine call a command is inside its status publish and the    *)
(* capture callback is about to append.                                    *)
C18_Witness ==
  /\ EngineBusy
  /\ pcM = "release"
  /\ lock = "main"
  /\ pcA = "append"

(* A START or TOGGLE has written recording and not yet cleared the queue. *)
TornState == pcM = "clear"

(* A step in which the capture callback reads recording, or the            *)
(* transcription thread reads recording or the queue.                      *)
ObserverStep ==
  \/ nblocks' # nblocks
  \/ SchedStep /\ pcS \in {"if_active", "if_queue", "if_len", "concatenate"}

(* C19: no read of recording or pendingAudio by the capture callback or    *)
(* the scheduler happens between a START's or TOGGLE's write of recording  *)
(* and its clear of pendingAudio.                                          *)
C19_NoTornObservation ==
  [][TornState => ~ObserverStep]_vars

(* C20: from the close of a STOP until the next START or TOGGLE is         *)
(* received, the scheduler types at most once and starts at most one       *)
(* engine call: an iteration that had read recording as true before the    *)
(* STOP cleared it runs to its end, and every later iteration reads        *)
(* recording false and sleeps. sinceStop counts both since the close.      *)
C20_AtMostOneAfterStop ==
  sinceStop.open => (sinceStop.typed <= 1 /\ sinceStop.calls <= 1)

(* After a STOP was closed the scheduler started an engine call and typed  *)
(* its text, and is back in its loop.                                      *)
C20_Witness ==
  /\ sinceStop.open
  /\ sinceStop.calls = 1
  /\ sinceStop.typed = 1
  /\ ~active
  /\ pcS = "sleep"
====
